---- MODULE Spec2Model ----
(***************************************************************************)
(* vim-rust-lsp-bridge (src/src/main.rs): a bridge that reads command      *)
(* lines, turns them into framed JSON-RPC requests for a language server   *)
(* run as a subprocess, and prints the replies.                            *)
(*                                                                         *)
(* Text is a sequence of characters, a stream is a sequence of bytes.  An  *)
(* ASCII character is the one-character string and is its own byte; the    *)
(* character U+00E9 is the two bytes xC3 xA9.  JSON values are records     *)
(* with a tag t: a number (n), a string (s) or an object (m, the members   *)
(* <<key, value>> in key order, as serde_json's map keeps them).           *)
(***************************************************************************)
EXTENDS Integers, Sequences, FiniteSets, TLC

\* Bounds of the model.
MaxCommands == 2
MaxServerWrites == 2
MaxEchoes == 3
HeaderSplit == 10
PayloadSplit == 30

\* tokio::io::BufReader::new: the capacity of the reader's internal buffer.
BufCap == 8192

Min(a, b) == IF a <= b THEN a ELSE b

----------------------------------------------------------------------------
\* Characters, bytes, decimal numbers

Digits == <<"0", "1", "2", "3", "4", "5", "6", "7", "8", "9">>

IsDigit(c) == \E i \in 1..10 : Digits[i] = c

DigitVal(c) == (CHOOSE i \in 1..10 : Digits[i] = c) - 1

\* format!("{}", n) of an unsigned integer
RECURSIVE ToDecimal(_)
ToDecimal(n) ==
    IF n < 10 THEN <<Digits[n + 1]>>
    ELSE ToDecimal(n \div 10) \o <<Digits[(n % 10) + 1]>>

\* The UTF-8 encoding of one character.
Utf8(c) == IF c = "U+00E9" THEN <<"xC3", "xA9">> ELSE <<c>>

\* str::as_bytes: the bytes of a text (halved, to keep the recursion shallow).
RECURSIVE as_bytes(_)
as_bytes(text) ==
    IF text = <<>> THEN <<>>
    ELSE IF Len(text) = 1 THEN Utf8(text[1])
    ELSE LET h == Len(text) \div 2
         IN  as_bytes(SubSeq(text, 1, h)) \o as_bytes(SubSeq(text, h + 1, Len(text)))

IsContinuationByte(b) == b = "xA9"

\* String::from_utf8: ok is FALSE when a lead byte has no continuation byte
\* after it or a continuation byte no lead byte before it.
from_utf8(bytes) ==
    LET n == Len(bytes)
        lead(i) == bytes[i] = "xC3"
        valid == \A i \in 1..n :
                    /\ lead(i) => i < n /\ IsContinuationByte(bytes[i + 1])
                    /\ IsContinuationByte(bytes[i]) => i > 1 /\ lead(i - 1)
        chars == [i \in 1..n |-> IF lead(i) THEN "U+00E9" ELSE bytes[i]]
    IN  IF valid
        THEN [ok |-> TRUE, text |-> SelectSeq(chars, LAMBDA c : ~IsContinuationByte(c))]
        ELSE [ok |-> FALSE, text |-> <<>>]

IsWhitespace(c) == c \in {" ", "\t", "\r", "\n"}

\* str::trim
RECURSIVE trim_start(_)
trim_start(s) ==
    IF s # <<>> /\ IsWhitespace(Head(s)) THEN trim_start(Tail(s)) ELSE s

RECURSIVE trim_end(_)
trim_end(s) ==
    IF s # <<>> /\ IsWhitespace(s[Len(s)])
    THEN trim_end(SubSeq(s, 1, Len(s) - 1)) ELSE s

trim(s) == trim_end(trim_start(s))

StartsWith(s, p) == Len(s) >= Len(p) /\ SubSeq(s, 1, Len(p)) = p

\* The value of a run of decimal digits.
RECURSIVE DecimalValue(_)
DecimalValue(ds) ==
    IF ds = <<>> THEN 0
    ELSE DecimalValue(SubSeq(ds, 1, Len(ds) - 1)) * 10 + DigitVal(ds[Len(ds)])

RECURSIVE StripZeros(_)
StripZeros(ds) ==
    IF Len(ds) > 1 /\ Head(ds) = "0" THEN StripZeros(Tail(ds)) ELSE ds

\* Whether the digits a are a greater number than the digits b (same length).
RECURSIVE DigitsGreater(_, _)
DigitsGreater(a, b) ==
    IF a = <<>> THEN FALSE
    ELSE IF DigitVal(Head(a)) # DigitVal(Head(b))
    THEN DigitVal(Head(a)) > DigitVal(Head(b))
    ELSE DigitsGreater(Tail(a), Tail(b))

Overflows(ds, max) ==
    LET d == StripZeros(ds)
    IN  Len(d) > Len(max) \/ (Len(d) = Len(max) /\ DigitsGreater(d, max))

\* u32::MAX and usize::MAX (64 bit), in digits.
U32Max == <<"4", "2", "9", "4", "9", "6", "7", "2", "9", "5">>
UsizeMax == <<"1", "8", "4", "4", "6", "7", "4", "4", "0", "7",
              "3", "7", "0", "9", "5", "5", "1", "6", "1", "5">>

\* str::parse for an unsigned integer type: an optional "+", then one or
\* more digits, and a value of at most max.
ParseUnsigned(s, max) ==
    LET ds == IF s # <<>> /\ Head(s) = "+" THEN Tail(s) ELSE s
    IN  IF ds # <<>> /\ (\A i \in 1..Len(ds) : IsDigit(ds[i])) /\ ~Overflows(ds, max)
        THEN [ok |-> TRUE, n |-> DecimalValue(ds)]
        ELSE [ok |-> FALSE, n |-> 0]

----------------------------------------------------------------------------
\* The string literals of the source, as texts

S_jsonrpc == <<"j", "s", "o", "n", "r", "p", "c">>
S_2_0 == <<"2", ".", "0">>
S_id == <<"i", "d">>
S_method == <<"m", "e", "t", "h", "o", "d">>
S_initialize == <<"i", "n", "i", "t", "i", "a", "l", "i", "z", "e">>
S_params == <<"p", "a", "r", "a", "m", "s">>
S_processId == <<"p", "r", "o", "c", "e", "s", "s", "I", "d">>
S_clientInfo == <<"c", "l", "i", "e", "n", "t", "I", "n", "f", "o">>
S_name == <<"n", "a", "m", "e">>
S_vim_rust_lsp_bridge ==
    <<"v", "i", "m", "-", "r", "u", "s", "t", "-", "l", "s", "p", "-", "b",
      "r", "i", "d", "g", "e">>
S_version == <<"v", "e", "r", "s", "i", "o", "n">>
S_0_1_0 == <<"0", ".", "1", ".", "0">>
S_rootUri == <<"r", "o", "o", "t", "U", "r", "i">>
S_capabilities ==
    <<"c", "a", "p", "a", "b", "i", "l", "i", "t", "i", "e", "s">>
S_trace == <<"t", "r", "a", "c", "e">>
S_verbose == <<"v", "e", "r", "b", "o", "s", "e">>
S_textDocument_definition ==
    <<"t", "e", "x", "t", "D", "o", "c", "u", "m", "e", "n", "t", "/", "d",
      "e", "f", "i", "n", "i", "t", "i", "o", "n">>
S_textDocument_hover ==
    <<"t", "e", "x", "t", "D", "o", "c", "u", "m", "e", "n", "t", "/", "h",
      "o", "v", "e", "r">>
S_textDocument_completion ==
    <<"t", "e", "x", "t", "D", "o", "c", "u", "m", "e", "n", "t", "/", "c",
      "o", "m", "p", "l", "e", "t", "i", "o", "n">>
S_textDocument ==
    <<"t", "e", "x", "t", "D", "o", "c", "u", "m", "e", "n", "t">>
S_uri == <<"u", "r", "i">>
S_position == <<"p", "o", "s", "i", "t", "i", "o", "n">>
S_line == <<"l", "i", "n", "e">>
S_character == <<"c", "h", "a", "r", "a", "c", "t", "e", "r">>
S_Content_Length ==
    <<"C", "o", "n", "t", "e", "n", "t", "-", "L", "e", "n", "g", "t", "h",
      ":">>
S_CRLF == <<"\r", "\n">>
S_DEFINITION == <<"D", "E", "F", "I", "N", "I", "T", "I", "O", "N">>
S_HOVER == <<"H", "O", "V", "E", "R">>
S_COMPLETION == <<"C", "O", "M", "P", "L", "E", "T", "I", "O", "N">>
S_RESPONSE == <<"_", "R", "E", "S", "P", "O", "N", "S", "E", ":", " ">>

----------------------------------------------------------------------------
\* JSON values (serde_json::Value) and their compact text

JNum(n) == [t |-> "num", n |-> n, s |-> <<>>, m |-> <<>>]
JStr(s) == [t |-> "str", n |-> 0, s |-> s, m |-> <<>>]
JObj(m) == [t |-> "obj", n |-> 0, s |-> <<>>, m |-> m]

\* A string in quotes, with the quote and the backslash escaped.
RECURSIVE Escaped(_)
Escaped(s) ==
    IF s = <<>> THEN <<>>
    ELSE IF Len(s) = 1
    THEN IF s[1] \in {"\"", "\\"} THEN <<"\\", s[1]>> ELSE s
    ELSE LET h == Len(s) \div 2
         IN  Escaped(SubSeq(s, 1, h)) \o Escaped(SubSeq(s, h + 1, Len(s)))

Quoted(s) == <<"\"">> \o Escaped(s) \o <<"\"">>

\* Value::to_string and Display for Value: compact, no whitespace.
RECURSIVE to_string(_)
RECURSIVE MembersText(_)
to_string(v) ==
    CASE v.t = "num" -> ToDecimal(v.n)
      [] v.t = "str" -> Quoted(v.s)
      [] v.t = "obj" -> <<"{">> \o MembersText(v.m) \o <<"}">>

MembersText(m) ==
    IF m = <<>> THEN <<>>
    ELSE Quoted(m[1][1]) \o <<":">> \o to_string(m[1][2])
         \o (IF Len(m) > 1 THEN <<",">> \o MembersText(Tail(m)) ELSE <<>>)

HasMember(v, key) == v.t = "obj" /\ \E i \in 1..Len(v.m) : v.m[i][1] = key

Member(v, key) == v.m[CHOOSE i \in 1..Len(v.m) : v.m[i][1] = key][2]

\* The "id" of a message: no id (a notification) or one.
JsonId(v) ==
    IF HasMember(v, S_id) /\ Member(v, S_id).t = "num"
    THEN {Member(v, S_id).n} ELSE {}

----------------------------------------------------------------------------
\* The requests the bridge builds

\* std::process::id() and std::env::current_dir() of the run.
ProcessId == 7
CurrentDir == <<"/", "r">>

InitializeRequest ==
    JObj(<< <<S_id, JNum(1)>>,
            <<S_jsonrpc, JStr(S_2_0)>>,
            <<S_method, JStr(S_initialize)>>,
            <<S_params, JObj(<<
                <<S_capabilities, JObj(<<>>)>>,
                <<S_clientInfo, JObj(<<
                    <<S_name, JStr(S_vim_rust_lsp_bridge)>>,
                    <<S_version, JStr(S_0_1_0)>> >>)>>,
                <<S_processId, JNum(ProcessId)>>,
                <<S_rootUri, JStr(CurrentDir)>>,
                <<S_trace, JStr(S_verbose)>> >>)>> >>)

\* The json!({...}) of goto_definition, hover and completion, which differ
\* in the id and the method only.
PositionRequest(id, method, uri, line_num, col_num) ==
    JObj(<< <<S_id, JNum(id)>>,
            <<S_jsonrpc, JStr(S_2_0)>>,
            <<S_method, JStr(method)>>,
            <<S_params, JObj(<<
                <<S_position, JObj(<<
                    <<S_character, JNum(col_num)>>,
                    <<S_line, JNum(line_num)>> >>)>>,
                <<S_textDocument, JObj(<< <<S_uri, JStr(uri)>> >>)>> >>)>> >>)

\* A length in characters (chars().count()) where bytes are meant.
ContentLenInChars(content) == Len(content)

\* content.len(): the length of a str in bytes.
ContentLen(content) == Len(as_bytes(content))

\* send_message's format!("Content-Length: {}\r\n\r\n{}", content.len(), content)
\* and message.as_bytes().
Message(content) ==
    as_bytes(S_Content_Length \o <<" ">> \o ToDecimal(ContentLen(content))
             \o S_CRLF \o S_CRLF \o content)

----------------------------------------------------------------------------
\* The command lines of the input and the frames of the subprocess

Uris == {<<"a">>, <<"U+00E9">>}

\* The line and column words of the command lines, those that parse ...
NumberWords == {<<"1">>, <<"1", "0">>, <<"+", "4">>}
\* ... and those that do not: not a number, negative, more than u32::MAX.
BadWords == {<<"x">>, <<"-", "1">>,
             <<"4", "2", "9", "4", "9", "6", "7", "2", "9", "6">>}

IntentNames == {S_DEFINITION, S_HOVER, S_COMPLETION}
CommandNames == IntentNames \cup {<<"F", "O", "O">>}

\* The argument lists: none to four arguments ...
CountArgLists ==
    {<<>>, <<<<"a">>>>, <<<<"a">>, <<"1">>>>, <<<<"a">>, <<"1">>, <<"+", "4">>>>,
     <<<<"a">>, <<"1">>, <<"1">>, <<"1">>>>}
\* ... and three arguments, the line or the column malformed or neither.
ThreeArgLists ==
    {<<<<"U+00E9">>, <<"1", "0">>, <<"+", "4">>>>}
    \cup {<<<<"a">>, b, <<"1">>>> : b \in BadWords}
    \cup {<<<<"a">>, <<"1">>, b>> : b \in BadWords}

RECURSIVE JoinWords(_)
JoinWords(ws) ==
    IF ws = <<>> THEN <<>>
    ELSE IF Len(ws) = 1 THEN ws[1]
    ELSE ws[1] \o <<" ">> \o JoinWords(Tail(ws))

\* The lines the command source can yield (without their line ending).
CommandLines ==
    {JoinWords(<<n>> \o a) : n \in CommandNames, a \in CountArgLists}
    \cup {JoinWords(<<n>> \o a) : n \in {S_DEFINITION, S_HOVER}, a \in ThreeArgLists}
    \cup {<<>>, <<" ", " ">>}

\* What the subprocess can answer: a reply to a request id, a notification.
S_result == <<"r", "e", "s", "u", "l", "t">>
Reply(id) == JObj(<< <<S_id, JNum(id)>>, <<S_result, JObj(<<>>)>> >>)
Notification == JObj(<< <<S_method, JStr(<<"n">>)>> >>)

\* The messages of the model; serde_json::from_slice is their inverse.
JsonValues ==
    {InitializeRequest, Notification}
    \cup {Reply(i) : i \in 1..4}
    \cup {PositionRequest(k[1], k[2], u, l, c) :
            k \in {<<2, S_textDocument_definition>>, <<3, S_textDocument_hover>>,
                   <<4, S_textDocument_completion>>},
            u \in Uris, l \in {1, 10}, c \in {1, 4}}

JsonTexts == {<<as_bytes(to_string(v)), v>> : v \in JsonValues}

\* serde_json::from_slice: the value whose text the bytes are, or an error.
\* White space around the value is skipped.
from_slice(content) ==
    IF \E e \in JsonTexts : e[1] = trim(content)
    THEN [ok |-> TRUE, v |-> (CHOOSE e \in JsonTexts : e[1] = trim(content))[2]]
    ELSE [ok |-> FALSE, v |-> JObj(<<>>)]

\* The writes the subprocess can make to its output stream.
BurstNames ==
    {"reply1", "reply2", "notify", "blank", "otherhdr", "nospace", "twospaces",
     "nonnumeric", "nonascii", "long", "clonly"}

BurstBytes(name) ==
    CASE name = "reply1" -> Message(to_string(Reply(1)))
      [] name = "reply2" -> Message(to_string(Reply(2)))
      [] name = "notify" -> Message(to_string(Notification))
      [] name = "blank" -> as_bytes(S_CRLF)
      [] name = "otherhdr" -> as_bytes(<<"X", ":", " ", "1">> \o S_CRLF)
      [] name = "nospace" ->
            as_bytes(S_Content_Length \o <<"2", "0">> \o S_CRLF \o S_CRLF
                     \o to_string(Reply(1)))
      [] name = "twospaces" ->
            as_bytes(S_Content_Length \o <<" ", " ", "2", "0">> \o S_CRLF \o S_CRLF
                     \o to_string(Reply(1)))
      [] name = "nonnumeric" ->
            as_bytes(S_Content_Length \o <<" ", "x">> \o S_CRLF \o S_CRLF)
      [] name = "nonascii" ->
            as_bytes(S_Content_Length \o <<"U+00E9">> \o S_CRLF \o S_CRLF)
      [] name = "long" ->
            as_bytes(S_Content_Length \o <<" ", "2", "1">> \o S_CRLF \o S_CRLF
                     \o to_string(Reply(1)))
      [] name = "clonly" -> as_bytes(S_Content_Length)

----------------------------------------------------------------------------
\* read_response, run from one suspension to the next

None == <<>>
Some(x) == <<x>>

\* A read_response in progress: the BufReader's buffer, the line read_line is
\* filling, content_length, content, and the pipe it reads from (eof: the
\* write end is closed).  res is how the run ended: "pending" (suspended, no
\* byte available), "spin" (the header loop meets end of stream), "Ok" with
\* the value, "Io", "Protocol", "Json", or "panic".
NewReader ==
    [st |-> "hdr", buf |-> <<>>, line |-> <<>>, content_length |-> None,
     content |-> <<>>, res |-> "pending"]

Idle == [NewReader EXCEPT !.st = "idle"]

Ended(s, res, val) == [s EXCEPT !.res = res, !.val = val]

\* BufReader::fill_buf on an empty buffer: one read of what the pipe holds,
\* at most the buffer's capacity.
fill_buf(s) ==
    LET k == Min(Len(s.pipe), BufCap)
    IN  [s EXCEPT !.buf = SubSeq(s.pipe, 1, k),
                  !.pipe = SubSeq(s.pipe, k + 1, Len(s.pipe))]

\* Lines 110-116: read_exact into content, then serde_json::from_slice.
RECURSIVE read_content(_)
read_content(s) ==
    LET need == s.content_length[1] - Len(s.content)
    IN  IF need = 0
        THEN LET p == from_slice(s.content)
             IN  IF p.ok THEN Ended(s, "Ok", Some(p.v)) ELSE Ended(s, "Json", None)
        ELSE IF s.buf # <<>>
        THEN LET k == Min(need, Len(s.buf))
             IN  read_content([s EXCEPT !.content = @ \o SubSeq(s.buf, 1, k),
                                        !.buf = SubSeq(s.buf, k + 1, Len(s.buf))])
        ELSE IF s.pipe # <<>>
        THEN IF need >= BufCap
             THEN \* a read as large as the buffer bypasses it
                  LET k == Min(need, Len(s.pipe))
                  IN  read_content([s EXCEPT !.content = @ \o SubSeq(s.pipe, 1, k),
                                             !.pipe = SubSeq(s.pipe, k + 1, Len(s.pipe))])
             ELSE read_content(fill_buf(s))
        ELSE IF s.eof THEN Ended(s, "Io", None)
        ELSE [s EXCEPT !.res = "pending"]

\* The place of the first "\n" of buf, 0 when it has none.
FirstNewline(buf) ==
    IF \E i \in 1..Len(buf) : buf[i] = "\n"
    THEN CHOOSE i \in 1..Len(buf) :
            buf[i] = "\n" /\ \A j \in 1..(i - 1) : buf[j] # "\n"
    ELSE 0

\* line[16..]: the line from byte 16 on; a panic when the line is shorter or
\* byte 16 is inside a character.
SliceFrom16(line) ==
    IF Len(line) < 16 \/ (Len(line) > 16 /\ IsContinuationByte(line[17]))
    THEN [ok |-> FALSE, s |-> <<>>]
    ELSE [ok |-> TRUE, s |-> SubSeq(line, 17, Len(line))]

\* The length taken one less than the header says.
ParseContentLengthOneLess(line) ==
    LET p == ParseUnsigned(trim(SliceFrom16(line).s), UsizeMax)
    IN  [p EXCEPT !.n = IF p.ok /\ @ > 0 THEN @ - 1 ELSE @]

\* line[16..].trim().parse::<usize>()
ParseContentLength(line) == ParseUnsigned(trim(SliceFrom16(line).s), UsizeMax)

RECURSIVE read_headers(_)

\* Lines 94-107: what the header loop does with the line read_line returned.
header_line(s) ==
    IF ~from_utf8(s.line).ok THEN Ended(s, "Io", None)
    ELSE IF s.line = <<>> THEN [s EXCEPT !.res = "spin"]
    ELSE IF StartsWith(s.line, as_bytes(S_Content_Length))
    THEN IF ~SliceFrom16(s.line).ok THEN Ended(s, "panic", None)
         ELSE IF ~ParseContentLength(s.line).ok THEN Ended(s, "Protocol", None)
         ELSE read_headers([s EXCEPT
                !.content_length = Some(ParseContentLength(s.line).n),
                !.line = <<>>])
    ELSE IF s.line = as_bytes(S_CRLF)
    THEN IF s.content_length = None THEN Ended(s, "Protocol", None)
         ELSE read_content([s EXCEPT !.st = "body", !.line = <<>>])
    ELSE read_headers([s EXCEPT !.line = <<>>])

\* Lines 90-92: read_line, which takes bytes up to and including a "\n", or
\* up to the end of the stream.
read_headers(s) ==
    IF s.buf # <<>>
    THEN LET i == FirstNewline(s.buf)
         IN  IF i > 0
             THEN header_line([s EXCEPT !.line = @ \o SubSeq(s.buf, 1, i),
                                        !.buf = SubSeq(s.buf, i + 1, Len(s.buf))])
             ELSE read_headers([s EXCEPT !.line = @ \o s.buf, !.buf = <<>>])
    ELSE IF s.pipe # <<>> THEN read_headers(fill_buf(s))
    ELSE IF s.eof THEN header_line(s)
    ELSE [s EXCEPT !.res = "pending"]

\* read_response resumed with the pipe as it is now.
read_response(r, pipe, eof) ==
    LET s == [st |-> r.st, buf |-> r.buf, line |-> r.line,
              content_length |-> r.content_length, content |-> r.content,
              res |-> "pending", pipe |-> pipe, eof |-> eof, val |-> None]
    IN  IF r.st = "hdr" THEN read_headers(s) ELSE read_content(s)

\* The reader's part of a run's outcome.
ReaderOf(s) ==
    [st |-> s.st, buf |-> s.buf, line |-> s.line,
     content_length |-> s.content_length, content |-> s.content, res |-> s.res]

----------------------------------------------------------------------------
\* The dispatcher

\* str::split_whitespace
RECURSIVE split_whitespace(_)
split_whitespace(text) ==
    LET t == trim_start(text)
    IN  IF t = <<>> THEN <<>>
        ELSE LET n == IF \E i \in 1..Len(t) : IsWhitespace(t[i])
                      THEN (CHOOSE i \in 1..Len(t) :
                               IsWhitespace(t[i])
                               /\ \A j \in 1..(i - 1) : ~IsWhitespace(t[j])) - 1
                      ELSE Len(t)
             IN  <<SubSeq(t, 1, n)>> \o split_whitespace(SubSeq(t, n + 1, Len(t)))

\* line.parse::<u32>() and col.parse::<u32>()
parse_u32(word) == ParseUnsigned(word, U32Max)

\* The column taken as 0 when it does not parse (unwrap_or_default).
PositionCallColumnUnchecked(name, id, method, uri, line, col) ==
    IF ~parse_u32(line).ok
    THEN [res |-> "ParseInt", name |-> name, request |-> JObj(<<>>)]
    ELSE [res |-> "send", name |-> name,
          request |-> PositionRequest(id, method, uri,
                                      parse_u32(line).n, parse_u32(col).n)]

\* goto_definition, hover and completion up to their send_message: the parse
\* error they return, or the request they send and the name they print.
PositionCall(name, id, method, uri, line, col) ==
    IF ~parse_u32(line).ok \/ ~parse_u32(col).ok
    THEN [res |-> "ParseInt", name |-> name, request |-> JObj(<<>>)]
    ELSE [res |-> "send", name |-> name,
          request |-> PositionRequest(id, method, uri,
                                      parse_u32(line).n, parse_u32(col).n)]

goto_definition(uri, line, col) ==
    PositionCall(S_DEFINITION, 2, S_textDocument_definition, uri, line, col)

hover(uri, line, col) ==
    PositionCall(S_HOVER, 3, S_textDocument_hover, uri, line, col)

completion(uri, line, col) ==
    PositionCall(S_COMPLETION, 4, S_textDocument_completion, uri, line, col)

\* The number of words the match arms of handle_vim_command ask for.
DefinitionParts == 4
HoverParts == 3
CompletionParts == 3

\* parts[i] of the source (from 0): a panic when i is out of bounds.
InBounds(parts, i) == i < Len(parts)
At(parts, i) == parts[i + 1]

\* handle_vim_command up to the first suspension: "nothing" (an empty line),
\* "unknown" (logged), "panic" (an index out of bounds), or what the intent's
\* function does.
handle_vim_command(command) ==
    LET parts == split_whitespace(command)
        skip(res) == [res |-> res, name |-> <<>>, request |-> JObj(<<>>)]
    IN  IF parts = <<>> THEN skip("nothing")
        ELSE IF parts[1] = S_DEFINITION /\ Len(parts) = DefinitionParts
        THEN IF InBounds(parts, 3)
             THEN goto_definition(At(parts, 1), At(parts, 2), At(parts, 3))
             ELSE skip("panic")
        ELSE IF parts[1] = S_HOVER /\ Len(parts) = HoverParts
        THEN IF InBounds(parts, 3)
             THEN hover(At(parts, 1), At(parts, 2), At(parts, 3))
             ELSE skip("panic")
        ELSE IF parts[1] = S_COMPLETION /\ Len(parts) = CompletionParts
        THEN IF InBounds(parts, 3)
             THEN completion(At(parts, 1), At(parts, 2), At(parts, 3))
             ELSE skip("panic")
        ELSE skip("unknown")

----------------------------------------------------------------------------
\* The state

VARIABLES
    pc,         \* where run_lsp_bridge is: "start", "spawned", "init_read",
                \* "loop", "cmd_read", or how the process ended: "exit0",
                \* "exit1", "panicked"
    err,        \* the LspError run_lsp_bridge returned, "none" so far
    log,        \* the error! lines
    cmd,        \* the command line read last
    nCmds,      \* the number of command lines read
    inflight,   \* the request sent whose reply is awaited, and who sent it
    rd,         \* the read_response in progress
    written,    \* the writes made to the subprocess's input stream
    pipe,       \* the bytes of the subprocess's output stream not read yet
    srv,        \* the subprocess: "running", "closed_out", "exited"
    todo,       \* the rest of the write the subprocess is making
    srvWrites,  \* the number of writes the subprocess has started
    echoed,     \* the number of them that echo a frame written to it
    srvLog,     \* the writes the subprocess has started, by name
    calls,      \* the round trips completed: who, the request, the reply
    out,        \* the lines printed
    lost        \* the bytes dropped with the BufReader of each read_response

vars == <<pc, err, log, cmd, nCmds, inflight, rd, written, pipe, srv, todo,
          srvWrites, echoed, srvLog, calls, out, lost>>

bridge == <<pc, err, log, cmd, nCmds, inflight, rd, written, calls, out, lost>>
server == <<srv, todo, srvWrites, echoed, srvLog>>

Init ==
    /\ pc = "start"
    /\ err = "none"
    /\ log = <<>>
    /\ cmd = <<>>
    /\ nCmds = 0
    /\ inflight = None
    /\ rd = Idle
    /\ written = <<>>
    /\ pipe = <<>>
    /\ srv = "running"
    /\ todo = <<>>
    /\ srvWrites = 0
    /\ echoed = 0
    /\ srvLog = <<>>
    /\ calls = <<>>
    /\ out = <<>>
    /\ lost = <<>>

Running == pc \in {"spawned", "init_read", "loop", "cmd_read"}

\* run_lsp_bridge returns Err(kind): main logs it and exits with code 1.
Fail(kind) ==
    /\ pc' = "exit1"
    /\ err' = kind
    /\ log' = Append(log, "Error in LSP bridge")

\* send_message: write_all fails when the subprocess is gone.
CanSend == srv # "exited"

\* The frame written twice.
SendAndResend(who, request) ==
    IF CanSend
    THEN /\ written' = written \o <<Message(to_string(request)),
                                     Message(to_string(request))>>
         /\ inflight' = Some([who |-> who, request |-> request])
         /\ rd' = NewReader
         /\ UNCHANGED <<err, log>>
    ELSE /\ Fail("Io")
         /\ UNCHANGED <<written, inflight, rd>>

\* A call's send_message and the start of its read_response.
Send(who, request) ==
    IF CanSend
    THEN /\ written' = Append(written, Message(to_string(request)))
         /\ inflight' = Some([who |-> who, request |-> request])
         /\ rd' = NewReader
         /\ UNCHANGED <<err, log>>
    ELSE /\ Fail("Io")
         /\ UNCHANGED <<written, inflight, rd>>

\* LspConnection::new
Spawn ==
    /\ pc = "start"
    /\ \/ /\ pc' = "spawned"
          /\ UNCHANGED <<err, log>>
       \/ Fail("Io")
    /\ UNCHANGED <<cmd, nCmds, inflight, rd, written, pipe, calls, out, lost>>
    /\ UNCHANGED server

\* initialize up to its read_response; cwd is what current_dir() gives.
Initialize(cwd) ==
    /\ pc = "spawned"
    /\ IF cwd = "ok"
       THEN /\ Send(S_initialize, InitializeRequest)
            /\ IF CanSend THEN pc' = "init_read" ELSE TRUE
       ELSE /\ Fail(IF cwd = "error" THEN "Io" ELSE "Protocol")
            /\ UNCHANGED <<written, inflight, rd>>
    /\ UNCHANGED <<cmd, nCmds, pipe, calls, out, lost>>
    /\ UNCHANGED server

\* The line without the "_RESPONSE" of its label.
ResponseLineShortLabel(name, response) == name \o <<":", " ">> \o to_string(response)

\* println!("{}_RESPONSE: {}", ...) of the three intents
ResponseLine(name, response) == name \o S_RESPONSE \o to_string(response)

\* read_response runs on, from the bytes the pipe holds now, and what its
\* caller does with its result.
Receive ==
    /\ pc \in {"init_read", "cmd_read"}
    /\ pipe # <<>> \/ srv # "running"
    /\ \E s \in {read_response(rd, pipe, srv # "running")} :
           /\ pipe' = s.pipe
           /\ IF s.res \in {"pending", "spin"}
              THEN /\ rd' = ReaderOf(s)
                   /\ UNCHANGED <<pc, err, log, inflight, calls, out, lost>>
              ELSE /\ rd' = Idle
                   /\ inflight' = None
                   /\ lost' = lost \o s.buf
                   /\ IF s.res = "Ok"
                      THEN /\ calls' = Append(calls,
                                  [who |-> inflight[1].who,
                                   request |-> inflight[1].request,
                                   reply |-> s.val[1]])
                           /\ out' = IF pc = "init_read" THEN out
                                     ELSE Append(out,
                                            ResponseLine(inflight[1].who, s.val[1]))
                           /\ pc' = "loop"
                           /\ UNCHANGED <<err, log>>
                      ELSE IF s.res = "panic"
                      THEN /\ pc' = "panicked"
                           /\ UNCHANGED <<err, log, calls, out>>
                      ELSE /\ Fail(s.res)
                           /\ UNCHANGED <<calls, out>>
    /\ UNCHANGED <<cmd, nCmds, written>>
    /\ UNCHANGED server

\* One turn of the command loop: the next line of the input, handled up to
\* the intent's read_response.
Command(line) ==
    /\ pc = "loop"
    /\ nCmds < MaxCommands
    /\ cmd' = line
    /\ nCmds' = nCmds + 1
    /\ LET h == handle_vim_command(line)
       IN  CASE h.res = "nothing" ->
                  UNCHANGED <<pc, err, log, inflight, rd, written>>
             [] h.res = "unknown" ->
                  /\ log' = Append(log, "Unknown command")
                  /\ UNCHANGED <<pc, err, inflight, rd, written>>
             [] h.res = "panic" ->
                  /\ pc' = "panicked"
                  /\ UNCHANGED <<err, log, inflight, rd, written>>
             [] h.res = "ParseInt" ->
                  /\ Fail("ParseInt")
                  /\ UNCHANGED <<inflight, rd, written>>
             [] h.res = "send" ->
                  /\ Send(h.name, h.request)
                  /\ IF CanSend THEN pc' = "cmd_read" ELSE TRUE
    /\ UNCHANGED <<pipe, calls, out, lost>>
    /\ UNCHANGED server

\* The command input is exhausted: run_lsp_bridge returns Ok(()).
InputEnd ==
    /\ pc = "loop"
    /\ pc' = "exit0"
    /\ UNCHANGED <<err, log, cmd, nCmds, inflight, rd, written, pipe, calls, out, lost>>
    /\ UNCHANGED server

\* Reading the command input fails: `line?`.
InputError ==
    /\ pc = "loop"
    /\ Fail("Io")
    /\ UNCHANGED <<cmd, nCmds, inflight, rd, written, pipe, calls, out, lost>>
    /\ UNCHANGED server

----------------------------------------------------------------------------
\* The subprocess, which may write anything it likes at any time

\* A write reaches the pipe whole, or in two parts: split inside the header
\* line or inside the payload.
Chunks(bytes) == {Len(bytes)} \cup ({HeaderSplit, PayloadSplit} \cap 1..Len(bytes))

Deliver(bytes, k) ==
    /\ pipe' = pipe \o SubSeq(bytes, 1, k)
    /\ todo' = SubSeq(bytes, k + 1, Len(bytes))

\* The bridge reads the pipe only in read_response: a write made at another
\* time is to the bridge the same write made when the next read_response starts.
Listening == pc \in {"init_read", "cmd_read"}

\* The subprocess starts a write: one of BurstNames, or ("echo") the next
\* frame written to it, unchanged.  It makes MaxServerWrites writes, or
\* MaxEchoes when all of them are echoes.
ServerWrite(name) ==
    /\ Listening /\ srv = "running" /\ todo = <<>>
    /\ \/ srvWrites < MaxServerWrites
       \/ name = "echo" /\ echoed = srvWrites /\ srvWrites < MaxEchoes
    /\ name = "echo" => echoed < Len(written)
    /\ LET bytes == IF name = "echo" THEN written[echoed + 1] ELSE BurstBytes(name)
       IN  \E k \in Chunks(bytes) : Deliver(bytes, k)
    /\ srvWrites' = srvWrites + 1
    /\ echoed' = IF name = "echo" THEN echoed + 1 ELSE echoed
    /\ srvLog' = Append(srvLog, name)
    /\ UNCHANGED srv
    /\ UNCHANGED bridge

ServerContinue ==
    /\ Listening /\ srv = "running" /\ todo # <<>>
    /\ Deliver(todo, Len(todo))
    /\ UNCHANGED <<srv, srvWrites, echoed, srvLog>>
    /\ UNCHANGED bridge

\* The subprocess closes its output stream, or exits.
ServerClose(how) ==
    /\ Running
    /\ \/ srv = "running" /\ how \in {"closed_out", "exited"}
       \/ srv = "closed_out" /\ how = "exited"
    /\ srv' = how
    /\ todo' = <<>>
    /\ UNCHANGED <<pipe, srvWrites, echoed, srvLog>>
    /\ UNCHANGED bridge

----------------------------------------------------------------------------

Next ==
    \/ Spawn
    \/ \E cwd \in {"ok", "error", "not utf-8"} : Initialize(cwd)
    \/ Receive
    \/ \E line \in CommandLines : Command(line)
    \/ InputEnd
    \/ InputError
    \/ \E name \in BurstNames \cup {"echo"} : ServerWrite(name)
    \/ ServerContinue
    \/ \E how \in {"closed_out", "exited"} : ServerClose(how)

Spec == Init /\ [][Next]_vars

----------------------------------------------------------------------------
\* What the properties speak of

\* The session states of the design, read off run_lsp_bridge's position.
SessionState ==
    CASE pc = "start" -> "NotStarted"
      [] pc \in {"spawned", "init_read"} -> "Spawned"
      [] pc \in {"loop", "cmd_read"} -> "Initialized"
      [] pc \in {"exit0", "exit1", "panicked"} -> "Terminated"

InitializeFrame == Message(to_string(InitializeRequest))

\* The step just taken handled a command line (cmd' is the line).
CommandStep == pc = "loop" /\ nCmds' = nCmds + 1

Words(line) == split_whitespace(line)

\* An intent name and three arguments.
IsIntentLine(line) ==
    Len(Words(line)) = 4 /\ Words(line)[1] \in IntentNames

Parses(word) == word \in NumberWords

NumberOf(word) ==
    CASE word = <<"1">> -> 1 [] word = <<"1", "0">> -> 10 [] word = <<"+", "4">> -> 4

\* An intent line whose line and column are non-negative integers.
WellFormedLines ==
    {l \in CommandLines :
        IsIntentLine(l) /\ Parses(Words(l)[3]) /\ Parses(Words(l)[4])}

\* An intent line whose line or column is not one.
MalformedNumberLines ==
    {l \in CommandLines :
        IsIntentLine(l) /\ ~(Parses(Words(l)[3]) /\ Parses(Words(l)[4]))}

\* A line whose first word is no intent, or with another number of arguments.
MismatchedLines ==
    {l \in CommandLines : Words(l) # <<>> /\ ~IsIntentLine(l)}

MethodOf(name) ==
    CASE name = S_DEFINITION -> S_textDocument_definition
      [] name = S_HOVER -> S_textDocument_hover
      [] name = S_COMPLETION -> S_textDocument_completion

\* {textDocument: {uri}, position: {line, character}}
ParamsOf(line) ==
    JObj(<< <<S_position, JObj(<<
                <<S_character, JNum(NumberOf(Words(line)[4]))>>,
                <<S_line, JNum(NumberOf(Words(line)[3]))>> >>)>>,
            <<S_textDocument, JObj(<< <<S_uri, JStr(Words(line)[2])>> >>)>> >>)

----------------------------------------------------------------------------
\* C1: a session that is Initialized has sent exactly one initialize request
\* and read the response that carries that request's id; before that no
\* other frame is written, and no second initialize request ever is.
C1_OneCorrelatedHandshake ==
    /\ Cardinality({i \in 1..Len(written) : written[i] = InitializeFrame}) <= 1
    /\ SessionState \in {"NotStarted", "Spawned"} =>
          \A i \in 1..Len(written) : written[i] = InitializeFrame
    /\ SessionState = "Initialized" =>
          /\ Len(written) >= 1 /\ written[1] = InitializeFrame
          /\ Len(calls) >= 1 /\ calls[1].request = InitializeRequest
          /\ JsonId(calls[1].reply) = JsonId(InitializeRequest)

\* C2: the reply returned for a request carries the request's id, whatever
\* else the subprocess writes.
C2_RepliesCarryRequestId ==
    \A i \in 1..Len(calls) : JsonId(calls[i].reply) = JsonId(calls[i].request)

\* C3: an intent name with uri, line and column makes the bridge write exactly
\* one frame, the request with the intent's method and these parameters, and
\* then await its reply.
C3_IntentLineSendsRequest ==
    [][(CommandStep /\ cmd' \in WellFormedLines /\ CanSend) =>
          /\ Len(written') = Len(written) + 1
          /\ pc' = "cmd_read"
          /\ inflight' # None
          /\ written'[Len(written')] = Message(to_string(inflight'[1].request))
          /\ Member(inflight'[1].request, S_method) = JStr(MethodOf(Words(cmd')[1]))
          /\ Member(inflight'[1].request, S_params) = ParamsOf(cmd')]_vars

\* C4: a line with an unknown first word or another number of arguments
\* changes neither what is written to the subprocess nor the session state.
C4_MismatchedLineChangesNothing ==
    [][(CommandStep /\ cmd' \in MismatchedLines) =>
          written' = written /\ SessionState' = SessionState]_vars

\* C5: such a line is reported, and the command loop goes on to the next line.
C5_MismatchedLineIsNotFatal ==
    [][(CommandStep /\ cmd' \in MismatchedLines) =>
          pc' = "loop" /\ log' = Append(log, "Unknown command")]_vars

C7_MalformedNumberIsSkipped ==
    [][(CommandStep /\ cmd' \in MalformedNumberLines) => pc' = "loop"]_vars

\* A receive is waiting for headers on a stream that is closed and empty.
HeadersAtEndOfStream ==
    /\ pc \in {"init_read", "cmd_read"}
    /\ rd.st = "hdr"
    /\ srv # "running"
    /\ pipe = <<>>

\* C8: when the subprocess closes its output before a complete header block,
\* the pending receive fails with an I/O error: run at the end of the stream,
\* read_response returns that error instead of going round its header loop.
C8_ClosedStreamFailsReceive ==
    [][(HeadersAtEndOfStream /\ rd' # rd) => err' = "Io"]_vars

\* C9: a receive takes from the stream the bytes of one frame and no more:
\* what follows the frame is still there for the next receive.
C9_ReceiveTakesOneFrame == SessionState = "Initialized" => lost = <<>>

\* The frame of a payload of n bytes: the header and n bytes, nothing after.
FramesPayload(w, payload) ==
    LET n == Len(payload)
    IN  w = as_bytes(S_Content_Length \o <<" ">> \o ToDecimal(n) \o S_CRLF \o S_CRLF)
            \o payload

\* The request of the i-th frame written.
RequestOf(i) ==
    IF i <= Len(calls) THEN calls[i].request ELSE inflight[1].request

\* C10: the length send_message declares is the payload's length in bytes,
\* the frame ends with the payload, and a frame written and read back
\* unchanged gives the value that was sent.
C10_RoundTrip ==
    /\ \A i \in 1..Len(written) :
          (i <= Len(calls) \/ inflight # None) =>
             FramesPayload(written[i], as_bytes(to_string(RequestOf(i))))
    /\ echoed = srvWrites =>
          \A i \in 1..Len(calls) : calls[i].reply = calls[i].request

\* C10's case: a request with a two-byte character went out and came back.
C10_Witness ==
    /\ echoed = srvWrites
    /\ \E i \in 1..Len(calls) :
          /\ calls[i].reply = calls[i].request
          /\ Len(as_bytes(to_string(calls[i].request)))
                > Len(to_string(calls[i].request))

----------------------------------------------------------------------------
\* A step of read_response: the reader has moved.
ReceiveStep == Listening /\ rd' # rd

\* Header blocks without a usable length: no Content-Length before the blank
\* line, or one whose value is not a decimal number.
MalformedHeaderBlocks ==
    {BurstBytes("blank"), BurstBytes("otherhdr") \o BurstBytes("blank"),
     BurstBytes("nonnumeric"), BurstBytes("nonascii")}

\* C11: a receive that starts on a malformed header block returns a protocol
\* error: no other error, no panic, no payload.
C11_MalformedHeadersAreProtocolErrors ==
    [][(ReceiveStep /\ rd = NewReader /\ pipe \in MalformedHeaderBlocks) =>
          err' = "Protocol" /\ pc' = "exit1" /\ calls' = calls]_vars

\* read_exact waits for more payload bytes than the stream holds.
PayloadShort ==
    /\ Listening
    /\ rd.st = "body"
    /\ Len(rd.content) + Len(rd.buf) + Len(pipe) < rd.content_length[1]

\* C12: after a well-formed header that declares more bytes than follow, the
\* receive stays pending while the stream is open, and once it is closed
\* returns an I/O error and no payload.
C12_ShortPayloadIsIoError ==
    [][/\ (PayloadShort /\ srv = "running") =>
             pc' = pc /\ err' = err /\ calls' = calls
       /\ (/\ ReceiveStep
           /\ srv # "running"
           /\ PayloadShort \/ (rd = NewReader /\ pipe = BurstBytes("long"))) =>
             err' = "Io" /\ pc' = "exit1" /\ calls' = calls /\ out' = out]_vars

\* C12's case: the handshake's reply declared 21 bytes, 20 came, the stream
\* was closed, and the receive returned the I/O error.
C12_Witness ==
    /\ srvLog = <<"long">>
    /\ srv = "closed_out"
    /\ calls = <<>>
    /\ pc = "exit1" /\ err = "Io"

\* C13: the process ends with code 0 only from the command loop, when the
\* input is exhausted and no command is being handled; every error that
\* run_lsp_bridge returns ends it with code 1; a session that ends before
\* the command loop (spawn failure, failed handshake) never ends with code 0;
\* and a handshake whose stream ends before a header block ends the process.
C13_ExitCodes ==
    [][/\ (pc' = "exit0" /\ pc # "exit0") =>
             pc = "loop" /\ err' = "none" /\ nCmds' = nCmds /\ written' = written
       /\ (pc = "loop" /\ pc' # "loop" /\ nCmds' = nCmds /\ err' = "none") =>
             pc' = "exit0"
       /\ err' # "none" => pc' = "exit1"
       /\ (SessionState \in {"NotStarted", "Spawned"} /\ SessionState' = "Terminated") =>
             pc' \in {"exit1", "panicked"}
       /\ (pc = "init_read" /\ HeadersAtEndOfStream /\ ReceiveStep) =>
             pc' \in {"exit1", "panicked"}]_vars

\* The id of the request of the i-th frame written.
IdOf(i) == JsonId(RequestOf(i))

\* C14: of two requests written, the later one carries the greater id.
C14_RequestIdsIncrease ==
    \A i, j \in 1..Len(written) :
        (i < j /\ (j <= Len(calls) \/ inflight # None)) =>
            /\ IdOf(i) # {} /\ IdOf(j) # {}
            /\ \A a \in IdOf(i), b \in IdOf(j) : a < b

\* The step sends a request (an intent's send_message) or runs a receive.
SendOrReceiveStep ==
    \/ CommandStep /\ handle_vim_command(cmd').res = "send"
    \/ ReceiveStep

\* C15: once the subprocess has exited, a send and a receive return a
\* session-closed error, write nothing and return no reply.
C15_TerminatedIsTerminal ==
    [][(srv = "exited" /\ SendOrReceiveStep) =>
          err' = "SessionClosed" /\ written' = written /\ calls' = calls]_vars

\* An intent's receive returns its reply.
IntentCompletes == pc = "cmd_read" /\ pc' = "loop"

\* C16: when an intent's receive returns, one line is printed after those
\* printed before: the first word of the command, "_RESPONSE: " and the text
\* of the reply received; no other step prints.
C16_OneResponseLinePerIntent ==
    [][/\ IntentCompletes =>
             /\ Len(calls') = Len(calls) + 1
             /\ out' = Append(out, Words(cmd)[1] \o S_RESPONSE
                                   \o to_string(calls'[Len(calls')].reply))
       /\ ~IntentCompletes => out' = out]_vars

\* C16's case: two intents were answered, each with the frame sent for it.
C16_Witness ==
    /\ Len(out) = 2
    /\ \A i \in 1..2 :
          out[i] = S_DEFINITION \o S_RESPONSE \o to_string(calls[i + 1].request)
    /\ calls[2].request # calls[3].request

\* The reply the receive of this step returned is v, and it is a new call.
Returns(v) ==
    /\ pc' = "loop"
    /\ Len(calls') = Len(calls) + 1
    /\ calls'[Len(calls')].reply = v

\* C17: a receive that starts on a blank line followed by a frame skips the
\* blank line and returns the frame's payload.
C17_BlankLineBeforeHeadersIsSkipped ==
    [][(/\ ReceiveStep
        /\ rd = NewReader
        /\ pipe = BurstBytes("blank") \o BurstBytes("reply1")) =>
          Returns(Reply(1))]_vars

\* Streams whose header gives the length 20 of the payload that follows:
\* one space after the colon, none, two, and another header line first.
LengthHeaderStreams ==
    {BurstBytes("reply1"), BurstBytes("nospace"), BurstBytes("twospaces"),
     BurstBytes("otherhdr") \o BurstBytes("reply1")}

\* C18: on each of them the receive reads the 20 bytes of the payload, no
\* more and no fewer, and returns its value.
C18_LengthIsTheTrimmedInteger ==
    [][(ReceiveStep /\ rd = NewReader /\ pipe \in LengthHeaderStreams) =>
          Returns(Reply(1)) /\ pipe' = <<>> /\ lost' = lost]_vars

\* The writes that are one whole frame.
FrameNames == {"reply1", "reply2", "notify", "echo"}

OnlyFrames == \A k \in 1..Len(srvLog) : srvLog[k] \in FrameNames

\* The number of echoes among the first k writes.
EchoesUpTo(k) == Cardinality({i \in 1..k : srvLog[i] = "echo"})

\* The bytes and the payload of the k-th write of a subprocess that writes
\* only frames.
FrameBytes(k) ==
    IF srvLog[k] = "echo" THEN written[EchoesUpTo(k)] ELSE BurstBytes(srvLog[k])

FrameValue(k) ==
    CASE srvLog[k] = "echo" -> RequestOf(EchoesUpTo(k))
      [] srvLog[k] = "reply1" -> Reply(1)
      [] srvLog[k] = "reply2" -> Reply(2)
      [] srvLog[k] = "notify" -> Notification

\* The bytes of the writes from the k-th on.
RECURSIVE FramesFrom(_)
FramesFrom(k) ==
    IF k > Len(srvLog) THEN <<>> ELSE FrameBytes(k) \o FramesFrom(k + 1)

\* C19: with a subprocess that writes only frames, the k-th receive that
\* returned gave the payload of the k-th frame, and between two receives the
\* frames not yet returned are all still on the stream, whole and in order.
C19_RepliesInStreamOrder ==
    OnlyFrames =>
        /\ \A k \in 1..Len(calls) : calls[k].reply = FrameValue(k)
        /\ pc = "loop" => pipe \o todo = FramesFrom(Len(calls) + 1)

\* At most the last frame written is unanswered, and it is so only while its
\* receive is pending or after that receive failed.
OneInFlight ==
    /\ Len(written) - Len(calls) \in {0, 1}
    /\ Listening <=> inflight # None
    /\ Len(written) - Len(calls) = 1 =>
          Listening \/ pc \in {"exit1", "panicked"}

\* C20: requests go out one at a time: a frame is written only when no
\* receive is pending, one frame at a step, and its receive starts with it.
C20_OneRequestAtATime ==
    [][/\ OneInFlight'
       /\ written' # written =>
             /\ ~Listening /\ inflight = None /\ rd = Idle
             /\ Len(written') = Len(written) + 1
             /\ Listening' /\ inflight' # None]_vars

\* C20's case: a third request went out after two round trips.
C20_Witness == Len(written) = 3 /\ Len(calls) = 2 /\ pc = "cmd_read"

====
